---- MODULE Spec2Model ----
(***************************************************************************)
(* A model of audio_patch.py: the capture source with its stereo upmix     *)
(* (SoundDeviceSource), the voice-operated gate (VoxSource) with its       *)
(* detection task (on_vox), and the client glue (AudioPatchClient).        *)
(*                                                                         *)
(* Execution contexts.  start_vox, stop_vox, on_ready and every on_vox     *)
(* task run on the one asyncio event loop: a task runs from one await to   *)
(* the next without any other coroutine or callback running in between.    *)
(* The player that voice.play() starts is an OS thread of the voice client:*)
(* its steps interleave freely with the steps of the event loop.           *)
(***************************************************************************)
EXTENDS Integers, Sequences, FiniteSets, TLC

\* ------------------------------------------------------------------ bounds
\* Samples fetched per stream.read(); the source asks for 960 (line 26).
BlockSize == 2
\* How many times the client connects (on_ready runs) in one behaviour.
MaxConnects == 2
\* How far silent_for may run past duration before the model stops counting.
ExtraSilent == 2
\* Longest mono frame given to the upmix step in SpecUpmix.
MaxMono == 3

\* ------------------------------------------------------- program constants
Threshold == 16
Duration == 25
\* on_vox, line 81: the 0.002 s of the sleep, in milliseconds
PollMs == 2
\* the time one stream.read(960) at 48000 Hz blocks for, in milliseconds
PullMs == 20

\* 16-bit sample values the device delivers in the model: a negative sample of
\* small magnitude, a quiet sample, a loud sample, and a loud sample whose two
\* bytes are both small.
Samples == {-1, 5, 20, 256}
\* The samples on which a byte-wise and a sample-wise reading agree.
CleanSamples == {5, 20}

\* A device block: BlockSize mono samples, the first one s, the others quiet.
Block(s) == [i \in 1..BlockSize |-> IF i = 1 THEN s ELSE 5]
DeviceBlocks == {Block(s) : s \in Samples}
CleanBlocks == {Block(s) : s \in CleanSamples}

\* ------------------------------------------------------- SoundDeviceSource
\* int16 -> its two's complement value in 0..65535
ToU16(s) == s % 65536
\* the two bytes of one int16 sample, little-endian
SampleBytes(s) == <<ToU16(s) % 256, ToU16(s) \div 256>>

\* np.repeat(data, 2, 1) on a (n, 1) array gives the (n, 2) array whose row i
\* is [s_i, s_i]; flattened in row order that is s_1 s_1 s_2 s_2 ...
UpmixBlocks(mono) == mono \o mono
Upmix(mono) == [j \in 1..(2 * Len(mono)) |-> mono[(j + 1) \div 2]]

\* data.data.tobytes(): the samples' bytes in order
ToBytes(samples) ==
  [k \in 1..(2 * Len(samples)) |-> SampleBytes(samples[(k + 1) \div 2])[2 - (k % 2)]]

\* SoundDeviceSource.read(), given the block the stream delivers
DeviceRead(block) == ToBytes(Upmix(block))

\* SoundDeviceSource.is_opus(): return False
DeviceIsOpus == FALSE

\* ------------------------------------------------------------ Python max()
RECURSIVE SeqMax(_)
SeqMax(s) ==
  IF Len(s) = 1 THEN s[1]
  ELSE LET m == SeqMax(Tail(s)) IN IF s[1] > m THEN s[1] ELSE m

\* max(data) on a bytes object: the largest byte value (0..255)
PyMax(data) == SeqMax(data)

\* -------------------------------------------------------------- the state
VARIABLES
  srcOpus,      \* what the wrapped source's is_opus() returns
  ctor,         \* "pending", "ok" (VoxSource built), "failed" (ValueError)
  active,       \* VoxSource.active
  threshold,    \* VoxSource.threshold (0: not assigned yet)
  duration,     \* VoxSource.duration  (0: not assigned yet)
  silent_for,   \* VoxSource.silent_for
  voice,        \* VoxSource.voice: 0 is None, n the n-th voice client
  task,         \* VoxSource.task: 0 is None, n the task of the n-th start_vox
  connected,    \* the current voice client is connected
  tasks,        \* every on_vox task created: its status
  ev,           \* the on_vox iteration the event loop is running, if any
  player,       \* per voice client: its player thread
  streamOpen,   \* the capture stream is started and not stopped
  plays,        \* voice.play calls since the gate last went Inactive
  quietRun,     \* consecutive below-threshold frames read in this Active period
  lostLoud,     \* a frame at/above threshold was pulled and not delivered
  upIn, upOut, upPc   \* SpecUpmix: the mono frame, the upmixed frame, position

gateVars == <<srcOpus, ctor, active, threshold, duration, silent_for, voice, task>>
runVars == <<connected, tasks, ev, player, streamOpen>>
ghostVars == <<plays, quietRun, lostLoud>>
upVars == <<upIn, upOut, upPc>>
vars == <<gateVars, runVars, ghostVars, upVars>>

Conns == 1..MaxConnects
SilentCap == Duration + ExtraSilent

\* A player thread: where it is, whether it was told to stop (end), and for the
\* read() call it is in: the frame fetched, the frame returned, whether the call
\* found the gate active (act), switched it off (deact), left silent_for at 0
\* (sf0), and whether its frame was the 25th of a run of below-threshold
\* frames (at25), and how many times it called source.read() (fetches).
NoPlayer == [pc |-> "none", end |-> FALSE, data |-> <<>>, ret |-> <<>>,
             act |-> FALSE, deact |-> FALSE, sf0 |-> FALSE, at25 |-> FALSE,
             fetches |-> 0]
\* The on_vox iteration in progress: the task, where it is, the frame its read()
\* fetched and returned, how many times that read() called source.read(), the
\* time its work has taken so far (elapsed, ms), and the argument it computed
\* for asyncio.sleep (sleep, ms).
EvIdle == [t |-> 0, pc |-> "idle", data |-> <<>>, ret |-> <<>>, sampled |-> FALSE,
           onset |-> FALSE, fetches |-> 0, elapsed |-> 0, sleep |-> 0]

\* ------------------------------------------------- what the claims speak of
\* the int16 value of two little-endian bytes
FromBytes(lo, hi) == LET u == lo + 256 * hi IN IF u >= 32768 THEN u - 65536 ELSE u
SamplesOf(data) == [i \in 1..(Len(data) \div 2) |-> FromBytes(data[2 * i - 1], data[2 * i])]
Abs(x) == IF x < 0 THEN -x ELSE x
\* peak absolute amplitude of a frame of 16-bit samples
Peak(data) == SeqMax([i \in 1..(Len(data) \div 2) |-> Abs(SamplesOf(data)[i])])
Loud(data) == Peak(data) >= Threshold
Min(a, b) == IF a < b THEN a ELSE b

\* ---------------------------------------------------------------- VoxSource
\* The body of VoxSource.read() after the fetch (lines 55-65), given the values
\* of active and silent_for it finds and the frame fetched: what it leaves in
\* active and silent_for, what it returns, and how many more times it calls
\* source.read() (more).
VoxReadMuteQuiet(act, sf, data) ==
  IF act
  THEN IF PyMax(data) < threshold
       THEN [active |-> (sf + 1 < duration), silent_for |-> sf + 1, ret |-> <<>>,
             more |-> 0]
       ELSE [active |-> act, silent_for |-> 0, ret |-> data, more |-> 0]
  ELSE [active |-> act, silent_for |-> sf, ret |-> data, more |-> 0]
\* read() switching the gate on by itself when it is handed a loud frame
VoxReadSelfActivates(act, sf, data) ==
  IF act
  THEN IF PyMax(data) < threshold
       THEN IF sf + 1 >= duration
            THEN [active |-> FALSE, silent_for |-> sf + 1, ret |-> <<>>, more |-> 0]
            ELSE [active |-> act, silent_for |-> sf + 1, ret |-> data, more |-> 0]
       ELSE [active |-> act, silent_for |-> 0, ret |-> data, more |-> 0]
  ELSE [active |-> (PyMax(data) >= threshold), silent_for |-> sf, ret |-> data, more |-> 0]
\* read() fetching a second frame for its threshold test
VoxReadRefetch(act, sf, data) ==
  IF act
  THEN IF PyMax(data) < threshold
       THEN IF sf + 1 >= duration
            THEN [active |-> FALSE, silent_for |-> sf + 1, ret |-> <<>>, more |-> 1]
            ELSE [active |-> act, silent_for |-> sf + 1, ret |-> data, more |-> 1]
       ELSE [active |-> act, silent_for |-> 0, ret |-> data, more |-> 1]
  ELSE [active |-> act, silent_for |-> sf, ret |-> data, more |-> 0]
VoxRead(act, sf, data) ==
  IF act
  THEN IF PyMax(data) < threshold
       THEN IF sf + 1 >= duration
            THEN [active |-> FALSE, silent_for |-> sf + 1, ret |-> <<>>, more |-> 0]
            ELSE [active |-> act, silent_for |-> sf + 1, ret |-> data, more |-> 0]
       ELSE [active |-> act, silent_for |-> 0, ret |-> data, more |-> 0]
  ELSE [active |-> act, silent_for |-> sf, ret |-> data, more |-> 0]

\* VoxSource.cleanup(): pass.  Given whether the capture stream is open, whether
\* it is open afterwards.
VoxCleanupStops(open) == FALSE
VoxCleanup(open) == open

\* on_vox, line 81: the argument of asyncio.sleep, given the time the
\* iteration has taken: loop.time() - start_time + 0.002
SleepArg(elapsed) == elapsed + PollMs

\* on_vox, line 74: the iteration samples the source iff the gate is not active
TaskSamplesAlways(act) == TRUE
TaskSamples(act) == ~act

\* on_vox, line 76: the sampled frame switches the gate on
TaskOnset(data) == PyMax(data) >= threshold

\* What the frame just put through read() does to the run of below-threshold
\* frames counted while the gate is Active.  A frame counts as below threshold
\* by the test read() makes (line 56); on the samples SpecClean delivers that
\* test and the peak amplitude agree.
QuietRunAfter(act, data) ==
  IF ~act THEN quietRun
  ELSE IF PyMax(data) < Threshold THEN Min(quietRun + 1, Duration + 1) ELSE 0

\* ------------------------------------------------------------------- Init
Init ==
  /\ srcOpus \in {DeviceIsOpus, TRUE}   \* the capture source, or an Opus source
  /\ ctor = "pending"
  /\ active = FALSE /\ threshold = 0 /\ duration = 0 /\ silent_for = 0
  /\ voice = 0 /\ task = 0
  /\ connected = FALSE
  /\ tasks = [c \in Conns |-> "none"]
  /\ ev = EvIdle
  /\ player = [c \in Conns |-> NoPlayer]
  /\ streamOpen = TRUE
  /\ plays = 0 /\ quietRun = 0 /\ lostLoud = FALSE
  /\ upIn = <<>> /\ upOut = <<>> /\ upPc = "off"

\* --------------------------------------------------- VoxSource.__init__
ConstructUnchecked ==
  /\ ctor = "pending"
  /\ active' = FALSE /\ threshold' = Threshold /\ duration' = Duration
  /\ silent_for' = 0
  /\ ctor' = "ok" /\ voice' = 0 /\ task' = 0
  /\ UNCHANGED <<srcOpus, runVars, ghostVars, upVars>>
Construct ==
  /\ ctor = "pending"
  /\ active' = FALSE /\ threshold' = Threshold /\ duration' = Duration
  /\ silent_for' = 0
  /\ IF srcOpus
     THEN ctor' = "failed" /\ UNCHANGED <<voice, task>>
     ELSE ctor' = "ok" /\ voice' = 0 /\ task' = 0
  /\ UNCHANGED <<srcOpus, runVars, ghostVars, upVars>>

\* ------------------------------------- AudioPatchClient.on_ready, start_vox
\* start_vox(voice): the n-th call stores the n-th voice client and creates the
\* n-th task, overwriting both fields.
StartVox(n) ==
  /\ voice' = n
  /\ task' = n
  /\ tasks' = [tasks EXCEPT ![n] = "sleeping"]

\* on_ready runs when the client becomes ready: at start, and again after the
\* connection was lost.  channel.connect() gives a new voice client.
OnReady ==
  /\ ctor = "ok" /\ ev.pc = "idle"
  /\ ~connected /\ voice < MaxConnects
  /\ connected' = TRUE
  /\ StartVox(voice + 1)
  /\ UNCHANGED <<srcOpus, ctor, active, threshold, duration, silent_for>>
  /\ UNCHANGED <<ev, player, streamOpen, ghostVars, upVars>>

\* stop_vox(): self.task.cancel().  The task is suspended at its sleep (or has
\* not started); cancelling a task that has ended does nothing.
\* a cancel() that took effect wherever the task happens to be
StopVoxAnywhere ==
  /\ ctor = "ok" /\ task # 0
  /\ tasks' = [tasks EXCEPT ![task] = IF @ \in {"sleeping", "running"}
                                       THEN "cancelled" ELSE @]
  /\ ev' = IF ev.t = task THEN EvIdle ELSE ev
  /\ UNCHANGED <<gateVars, connected, player, streamOpen, ghostVars, upVars>>
StopVox ==
  /\ ctor = "ok" /\ ev.pc = "idle" /\ task # 0
  /\ tasks' = [tasks EXCEPT ![task] = IF @ = "sleeping" THEN "cancelled" ELSE @]
  /\ UNCHANGED <<gateVars, connected, ev, player, streamOpen, ghostVars, upVars>>

\* The voice session ends (the connection is lost or closed): the voice client
\* is no longer connected and its player is told to stop.  No code of the
\* repository runs on this event.
Disconnect ==
  /\ connected /\ ev.pc = "idle"
  /\ connected' = FALSE
  /\ player' = [player EXCEPT ![voice].end = (player[voice].pc # "none")]
  /\ UNCHANGED <<gateVars, tasks, ev, streamOpen, ghostVars, upVars>>

\* ------------------------------------------------------------------ on_vox
\* lines 72-74: the task resumes, takes the time and tests self.active
TaskWake(t) ==
  /\ tasks[t] = "sleeping" /\ ev.pc = "idle"
  /\ tasks' = [tasks EXCEPT ![t] = "running"]
  /\ ev' = [EvIdle EXCEPT !.t = t,
                          !.pc = IF TaskSamples(active) THEN "l75" ELSE "l81"]
  /\ UNCHANGED <<gateVars, connected, player, streamOpen, ghostVars, upVars>>

\* line 75 -> line 53: self.read() enters source.read()
TaskPullBegin ==
  /\ ev.pc = "l75"
  /\ ev' = [ev EXCEPT !.pc = "pulling"]
  /\ UNCHANGED <<gateVars, connected, tasks, player, streamOpen, ghostVars, upVars>>

\* line 75 -> line 53: source.read() returns a frame after blocking for it; on
\* a stream that was stopped it raises, which ends the task
TaskPullEnd(b) ==
  /\ ev.pc = "pulling"
  /\ IF streamOpen
     THEN /\ ev' = [ev EXCEPT !.pc = "fetched", !.data = DeviceRead(b),
                              !.sampled = TRUE, !.fetches = @ + 1,
                              !.elapsed = @ + PullMs]
          /\ UNCHANGED tasks
     ELSE /\ tasks' = [tasks EXCEPT ![ev.t] = "failed"]
          /\ ev' = EvIdle
  /\ UNCHANGED <<gateVars, connected, player, streamOpen, ghostVars, upVars>>

\* line 75 -> lines 55-65: the rest of self.read()
TaskGate ==
  /\ ev.pc = "fetched"
  /\ LET r == VoxRead(active, silent_for, ev.data) IN
       /\ r.silent_for <= SilentCap
       /\ active' = r.active
       /\ silent_for' = r.silent_for
       /\ ev' = [ev EXCEPT !.pc = "l76", !.ret = r.ret, !.fetches = @ + r.more]
       /\ quietRun' = QuietRunAfter(active, ev.data)
       /\ plays' = IF active /\ ~r.active THEN 0 ELSE plays
  /\ UNCHANGED <<srcOpus, ctor, threshold, duration, voice, task>>
  /\ UNCHANGED <<connected, tasks, player, streamOpen, lostLoud, upVars>>

\* line 76: max(data) >= self.threshold; max() of an empty frame raises
\* ValueError, which ends the task.  The sampled frame has no other use.
TaskTest ==
  /\ ev.pc = "l76"
  /\ IF ev.ret = <<>>
     THEN /\ tasks' = [tasks EXCEPT ![ev.t] = "failed"]
          /\ ev' = EvIdle
     ELSE /\ ev' = [ev EXCEPT !.pc = IF TaskOnset(ev.ret) THEN "l78" ELSE "l81",
                              !.onset = TaskOnset(ev.ret)]
          /\ UNCHANGED tasks
  /\ lostLoud' = (lostLoud \/ Loud(ev.data))
  /\ UNCHANGED <<gateVars, connected, player, streamOpen, plays, quietRun, upVars>>

\* line 78: self.active = True
TaskSetActive ==
  /\ ev.pc = "l78"
  /\ active' = TRUE
  /\ ev' = [ev EXCEPT !.pc = "l79"]
  /\ quietRun' = 0
  /\ UNCHANGED <<srcOpus, ctor, threshold, duration, silent_for, voice, task>>
  /\ UNCHANGED <<connected, tasks, player, streamOpen, plays, lostLoud, upVars>>

\* line 79: self.voice.play(self).  The voice client refuses with an exception
\* when it is not connected or its player is still playing; the exception is
\* not caught and ends the task.  Otherwise a player thread starts.
TaskPlay ==
  /\ ev.pc = "l79"
  /\ plays' = Min(plays + 1, 2)
  /\ IF ~connected \/ (player[voice].pc # "none" /\ ~player[voice].end)
     THEN /\ tasks' = [tasks EXCEPT ![ev.t] = "failed"]
          /\ ev' = EvIdle
          /\ UNCHANGED player
     ELSE /\ player' = [player EXCEPT ![voice] = [NoPlayer EXCEPT !.pc = "loop"]]
          /\ ev' = [ev EXCEPT !.pc = "l81"]
          /\ UNCHANGED tasks
  /\ UNCHANGED <<gateVars, connected, streamOpen, quietRun, lostLoud, upVars>>

\* line 81: the argument of asyncio.sleep is computed
TaskSleepArg ==
  /\ ev.pc = "l81"
  /\ ev' = [ev EXCEPT !.pc = "l81s", !.sleep = SleepArg(ev.elapsed)]
  /\ UNCHANGED <<gateVars, connected, tasks, player, streamOpen, ghostVars, upVars>>

\* line 81: await asyncio.sleep(...): the task is suspended
TaskSleep ==
  /\ ev.pc = "l81s"
  /\ tasks' = [tasks EXCEPT ![ev.t] = "sleeping"]
  /\ ev' = EvIdle
  /\ UNCHANGED <<gateVars, connected, player, streamOpen, ghostVars, upVars>>

\* ------------------------------------------------ the session's player thread
\* The player loops until told to stop; on leaving it calls source.cleanup().
PlayerLoop(v) ==
  /\ player[v].pc = "loop"
  /\ IF player[v].end
     THEN /\ player' = [player EXCEPT ![v] = NoPlayer]
          /\ streamOpen' = VoxCleanup(streamOpen)
     ELSE /\ player' = [player EXCEPT ![v].pc = "pulling"]
          /\ UNCHANGED streamOpen
  /\ UNCHANGED <<gateVars, connected, tasks, ev, ghostVars, upVars>>

\* VoxSource.read(), line 53: source.read() returns a frame; on a stream that
\* was stopped it raises, which ends the player thread
PlayerPullEnd(v, b) ==
  /\ player[v].pc = "pulling"
  /\ player' = IF streamOpen
               THEN [player EXCEPT ![v].pc = "fetched", ![v].data = DeviceRead(b),
                                   ![v].fetches = @ + 1]
               ELSE [player EXCEPT ![v] = NoPlayer]   \* the read raises
  /\ UNCHANGED <<gateVars, connected, tasks, ev, streamOpen, ghostVars, upVars>>

\* VoxSource.read(), lines 55-65
PlayerGate(v) ==
  /\ player[v].pc = "fetched"
  /\ LET r == VoxRead(active, silent_for, player[v].data) IN
       /\ r.silent_for <= SilentCap
       /\ active' = r.active
       /\ silent_for' = r.silent_for
       /\ player' = [player EXCEPT ![v].pc = "returned", ![v].ret = r.ret,
                                   ![v].act = active,
                                   ![v].fetches = @ + r.more,
                                   ![v].deact = (active /\ ~r.active),
                                   ![v].sf0 = (r.silent_for = 0),
                                   ![v].at25 =
                                     (QuietRunAfter(active, player[v].data) = Duration)]
       /\ quietRun' = QuietRunAfter(active, player[v].data)
       /\ plays' = IF active /\ ~r.active THEN 0 ELSE plays
       /\ lostLoud' = (lostLoud \/ (r.ret # player[v].data /\ Loud(player[v].data)))
  /\ UNCHANGED <<srcOpus, ctor, threshold, duration, voice, task>>
  /\ UNCHANGED <<connected, tasks, ev, streamOpen, upVars>>

\* The player takes what read() returned: an empty frame stops it (and it calls
\* source.cleanup() on leaving); any other frame is sent and it loops.
PlayerConsume(v) ==
  /\ player[v].pc = "returned"
  /\ IF player[v].ret = <<>>
     THEN /\ player' = [player EXCEPT ![v] = NoPlayer]
          /\ streamOpen' = VoxCleanup(streamOpen)
     ELSE /\ player' = [player EXCEPT ![v] = [NoPlayer EXCEPT !.pc = "loop",
                                                            !.end = player[v].end]]
          /\ UNCHANGED streamOpen
  /\ UNCHANGED <<gateVars, connected, tasks, ev, ghostVars, upVars>>

\* ------------------------------------------------------------ specifications
Step(Blocks) ==
  \/ Construct
  \/ OnReady
  \/ StopVox
  \/ Disconnect
  \/ \E t \in Conns : TaskWake(t)
  \/ TaskPullBegin
  \/ \E b \in Blocks : TaskPullEnd(b)
  \/ TaskGate
  \/ TaskTest
  \/ TaskSetActive
  \/ TaskPlay
  \/ TaskSleepArg
  \/ TaskSleep
  \/ \E v \in Conns : PlayerLoop(v)
  \/ \E v \in Conns, b \in Blocks : PlayerPullEnd(v, b)
  \/ \E v \in Conns : PlayerGate(v)
  \/ \E v \in Conns : PlayerConsume(v)

Next == Step(DeviceBlocks)
Spec == Init /\ [][Next]_vars

\* The same program with a device that delivers only samples on which the
\* byte-wise and the sample-wise reading of a frame agree.
NextClean == Step(CleanBlocks)
SpecClean == Init /\ [][NextClean]_vars

\* The upmix step alone, on every mono frame of up to MaxMono samples.
RECURSIVE SeqsUpTo(_)
SeqsUpTo(n) ==
  IF n = 0 THEN {<<>>}
  ELSE LET S == SeqsUpTo(n - 1) IN S \cup {Append(s, x) : s \in S, x \in Samples}

InitUpmix ==
  /\ srcOpus = DeviceIsOpus /\ ctor = "pending"
  /\ active = FALSE /\ threshold = 0 /\ duration = 0 /\ silent_for = 0
  /\ voice = 0 /\ task = 0
  /\ connected = FALSE
  /\ tasks = [c \in Conns |-> "none"]
  /\ ev = EvIdle
  /\ player = [c \in Conns |-> NoPlayer]
  /\ streamOpen = TRUE
  /\ plays = 0 /\ quietRun = 0 /\ lostLoud = FALSE
  /\ upIn \in SeqsUpTo(MaxMono) /\ upOut = <<>> /\ upPc = "in"

UpmixRead ==
  /\ upPc = "in"
  /\ upOut' = DeviceRead(upIn)
  /\ upPc' = "out"
  /\ UNCHANGED <<gateVars, runVars, ghostVars, upIn>>

NextUpmix == UpmixRead
SpecUpmix == InitUpmix /\ [][NextUpmix]_vars

\* ------------------------------------------------------------------ claims
Returned(v) == player[v].pc = "returned"
\* the pcs at which the running on_vox iteration has its read() call behind it
AfterRead == {"l76", "l78", "l79", "l81"}

\* C1: every session read() that finds the gate Active switches it off exactly
\* when the frame is the 25th consecutive below-threshold frame since the
\* activation or the last at/above-threshold frame; that call returns a
\* zero-length frame, every other call returns the real frame.
C1_OffOnExactly25th ==
  \A v \in Conns :
    Returned(v) /\ player[v].act =>
      /\ player[v].deact <=> player[v].at25
      /\ player[v].deact => player[v].ret = <<>>
      /\ ~player[v].deact => player[v].ret = player[v].data

\* C2: silent_for is 0 whenever the gate is Inactive and right after the
\* detection task switched it on, and 0 <= silent_for < duration always.
C2_SilentForReset ==
  ctor = "ok" =>
    /\ ~active => silent_for = 0
    /\ ev.pc = "l79" => silent_for = 0
    /\ 0 <= silent_for /\ silent_for < duration

\* C3: a session read() that finds the gate Active and fetches a frame whose
\* peak amplitude is at/above threshold leaves the gate Active, leaves
\* silent_for at 0 and returns the fetched frame unchanged.
C3_LoudFramePasses ==
  \A v \in Conns :
    Returned(v) /\ player[v].act /\ Loud(player[v].data) =>
      /\ ~player[v].deact
      /\ player[v].sf0
      /\ player[v].ret = player[v].data

\* C4: the player thread and the detection task are never inside source.read()
\* at the same time; the task is inside it only while active is false, the
\* player only while active is true.
C4_NoConcurrentPull ==
  /\ \A v \in Conns : ~(player[v].pc = "pulling" /\ ev.pc = "pulling")
  /\ ev.pc = "pulling" => ~active
  /\ \A v \in Conns : player[v].pc = "pulling" => active
\* the detection task is sampling while the player's deactivating read() has
\* returned and the player has not yet stopped
C4_Witness ==
  \E v \in Conns : Returned(v) /\ player[v].deact /\ ev.pc = "pulling"

\* C5: a detection iteration that samples a frame whose peak amplitude is
\* at/above threshold switches the gate on and calls voice.play, and play is
\* called at most once between two deactivations.
C5_OnsetPlaysOnce ==
  /\ ev.pc \in {"l78", "l79", "l81"} /\ ev.sampled /\ Loud(ev.data) => ev.onset
  /\ plays <= 1

\* C6: every read() returns the full frame the wrapped source returned
\* (2 channels x 2 bytes x BlockSize) or a zero-length frame, and a zero-length
\* frame only in the call that switches the gate off.
C6_FrameLengths ==
  /\ \A v \in Conns :
       Returned(v) =>
         \/ player[v].ret = player[v].data /\ Len(player[v].ret) = 4 * BlockSize
         \/ player[v].ret = <<>> /\ player[v].deact
  /\ ev.pc \in AfterRead /\ ev.sampled =>
       ev.ret = ev.data /\ Len(ev.ret) = 4 * BlockSize
C6_Witness == \E v \in Conns : Returned(v) /\ player[v].ret = <<>> /\ player[v].deact

\* C7: the upmix of a mono frame of n samples has 2n samples (twice the
\* bytes), input sample i standing at the two output positions 2i and 2i+1
\* (counted from 0).
C7_UpmixInterleaves ==
  upPc = "out" =>
    /\ Len(upOut) = 2 * (2 * Len(upIn))
    /\ Len(SamplesOf(upOut)) = 2 * Len(upIn)
    /\ \A i \in 1..Len(upIn) :
         /\ SamplesOf(upOut)[2 * i - 1] = upIn[i]
         /\ SamplesOf(upOut)[2 * i] = upIn[i]
C7_Witness == upPc = "out" /\ Len(upIn) >= 2 /\ upIn[1] # upIn[2]

\* C8: constructing over an Opus source fails and leaves no task, no voice
\* client, no player and no read of the source; constructing over any other
\* source succeeds with active false, threshold 16, duration 25, silent_for 0.
C8_Construct ==
  /\ ctor # "pending" => (ctor = "failed" <=> srcOpus)
  /\ ctor = "failed" =>
       /\ voice = 0 /\ task = 0 /\ ~connected
       /\ \A c \in Conns : tasks[c] = "none" /\ player[c].pc = "none"
       /\ ev.pc = "idle" /\ plays = 0 /\ streamOpen
  /\ ctor = "ok" /\ voice = 0 =>
       ~active /\ threshold = 16 /\ duration = 25 /\ silent_for = 0
C8_WitnessFailed == ctor = "failed" /\ srcOpus

\* C9: no detection task is still alive once the session it was started for
\* has ended.
C9_TaskEndsWithSession ==
  \A c \in Conns :
    tasks[c] \in {"sleeping", "running"} => (c = voice /\ connected)

\* C10: no frame whose peak amplitude is at/above threshold is pulled from the
\* wrapped source without being delivered to the session.
C10_NoLoudFrameLost == ~lostLoud

\* the steps of the running on_vox iteration
TaskStep == ev' # ev
GateFields == <<active, silent_for, threshold, duration>>

\* C11: every threshold test decides by the frame's peak absolute amplitude:
\* read() counts a frame as silent, and on_vox takes a frame for an onset,
\* exactly according to whether some 16-bit sample has |s| >= 16.
C11_PeakDecides ==
  /\ \A v \in Conns :
       Returned(v) /\ player[v].act => (player[v].sf0 <=> Loud(player[v].data))
  /\ ev.pc \in {"l78", "l79", "l81"} /\ ev.sampled => (ev.onset <=> Loud(ev.data))

\* C12: a task is cancelled only while suspended at its sleep, so whenever the
\* gate is Active and play has not been called since it last went Inactive, the
\* task that wrote active = True is the one running and is about to call play.
C12_ActivateAndPlayTogether ==
  /\ \A t \in Conns : tasks[t] = "cancelled" => ev.t # t
  /\ ctor = "ok" /\ active /\ plays = 0 => ev.pc = "l79" /\ tasks[ev.t] = "running"
C12_Witness == \E t \in Conns : tasks[t] = "cancelled" /\ active /\ plays = 1

\* C13: active changes from false to true only in the step of on_vox line 78;
\* no read() call does it.
C13_OnlyTaskActivates ==
  [][(~active /\ active') => (ev.pc = "l78" /\ ev'.pc = "l79")]_vars
\* a read() has just handled a loud frame with the gate Inactive
C13_Witness == ev.pc = "l76" /\ ~active /\ TaskOnset(ev.ret)

\* C14: in an iteration that sampled a below-threshold frame no step of the
\* task changes active, silent_for, threshold or duration or calls play; an
\* iteration that finds the gate Active does not sample and changes none of them.
C14_QuietIterationIdle ==
  [][/\ (TaskStep /\ ev.sampled /\ ~Loud(ev.data)) =>
          (UNCHANGED GateFields /\ plays' = plays)
     /\ (TaskStep /\ ev.pc = "idle" /\ active) =>
          (ev'.pc = "l81" /\ ~ev'.sampled /\ UNCHANGED GateFields)
     /\ (TaskStep /\ ev.pc = "l81" /\ ~ev.sampled) =>
          (UNCHANGED GateFields /\ plays' = plays)]_vars

\* C15: every read() call has called source.read() exactly once when it
\* returns, whichever path it took.
C15_OneFetchPerRead ==
  /\ \A v \in Conns : Returned(v) => player[v].fetches = 1
  /\ ev.pc \in AfterRead /\ ev.sampled => ev.fetches = 1
\* a read() has returned the zero-length frame
C15_Witness == \E v \in Conns : Returned(v) /\ player[v].ret = <<>>

\* C16: the cleanup() call a player makes on leaving changes nothing: the
\* capture stream is open before and after, and active, silent_for, threshold,
\* duration and the tasks are unchanged.
PlayerLeaves == \E v \in Conns : player[v].pc # "none" /\ player'[v].pc = "none"
C16_CleanupNoOp ==
  [][PlayerLeaves =>
       (streamOpen /\ streamOpen' /\ UNCHANGED <<GateFields, tasks, task>>)]_vars
\* the first session's player has left and the detection task has switched the
\* gate on again: a new player is pulling
C16_Witness ==
  /\ voice = 1 /\ silent_for >= Duration /\ active /\ plays = 1
  /\ player[1].pc = "pulling" /\ streamOpen

\* C17: the argument of asyncio.sleep is 2 ms minus the time the iteration's
\* work took (not below 0), so that work plus sleep is 2 ms whenever the work
\* took no longer than that.
C17_SteadyPeriod ==
  ev.pc = "l81s" =>
    ev.sleep = (IF PollMs - ev.elapsed > 0 THEN PollMs - ev.elapsed ELSE 0)

\* C18: a gate has at most one live (uncancelled, unfinished) detection task,
\* and once stop_vox has cancelled the task it holds, no task that start_vox
\* created is live.
LiveTasks == {t \in Conns : tasks[t] \in {"sleeping", "running"}}
C18_OneLiveTask ==
  /\ Cardinality(LiveTasks) <= 1
  /\ task # 0 /\ tasks[task] = "cancelled" => LiveTasks = {}

\* C19: while the first voice session is connected, the gate is never Active
\* with no player pulling from it and no play call pending.
SessionPulling == \E v \in Conns : player[v].pc # "none" /\ ~player[v].end
ResumePending == ev.pc = "l79"
C19_NoStuckState ==
  ctor = "ok" /\ connected /\ voice = 1 /\ active =>
    SessionPulling \/ ResumePending

====
